---- MODULE Spec2Model ----
(***************************************************************************)
(* Load of script/research/lotterysim/constants.py.                        *)
(*                                                                         *)
(* The module body is a straight line of 19 statements (one import and 18  *)
(* assignments).  Loading it executes them in order against the module     *)
(* namespace; afterwards importers look names up.  The values are Python   *)
(* ints, binary64 floats and decimal.Decimal numbers, and the arithmetic   *)
(* on them (literal parsing, float multiplication, Decimal construction    *)
(* from a float, Decimal multiplication under the default context, and the *)
(* conversion float(Decimal)) is computed here digit by digit.             *)
(*                                                                         *)
(* Natural numbers are sequences of limbs in base 10^4, least significant  *)
(* limb first, without leading zero limbs (zero is << >>), so that every   *)
(* intermediate product stays below 2^31.                                  *)
(***************************************************************************)
EXTENDS Integers, Sequences, FiniteSets, Bags

\* ------------------------------------------------------------ naturals

Base == 100 * 100

\* a without its leading zero limbs
Norm(a) ==
    IF \A i \in 1..Len(a) : a[i] = 0 THEN << >>
    ELSE SubSeq(a, 1, CHOOSE n \in 1..Len(a) :
                        a[n] # 0 /\ \A k \in (n + 1)..Len(a) : a[k] = 0)

Zero == << >>
One == << 1 >>

\* the sequence f as an explicit tuple
Tup(f) == f \o << >>

Limb(a, i) == IF i >= 1 /\ i <= Len(a) THEN a[i] ELSE 0

\* cols with the part of each column above the base moved one column up, twice
\* over: what arrives from below the first time is moved on the second time
Split(cols) ==
    LET S(i) == (Limb(cols, i) % Base) + (Limb(cols, i - 1) \div Base)
    IN  Tup([i \in 1..(Len(cols) + 2) |-> (S(i) % Base) + (S(i - 1) \div Base)])

\* the carry (0 or 1) into column i of s, whose columns are below 2 * Base: a
\* column overflows and every column between it and i passes the carry on
CarryIn(s, i) ==
    IF \E j \in 1..(i - 1) : s[j] >= Base /\ \A k \in (j + 1)..(i - 1) : s[k] = Base - 1
    THEN 1 ELSE 0

\* the limbs of the number whose i-th column holds cols[i] (0 <= cols[i] < 2^31)
Carry(cols) ==
    LET s == Split(cols)
    IN  IF cols = << >> THEN << >>
        ELSE Norm(Tup([i \in 1..(Len(s) + 1) |-> (Limb(s, i) + CarryIn(s, i)) % Base]))

\* a * k + c for a small k (k, c <= 2^17)
MulAddSmall(a, k, c) ==
    IF a = << >> THEN Carry(<< c >>)
    ELSE Carry(Tup([i \in 1..Len(a) |-> a[i] * k + (IF i = 1 THEN c ELSE 0)]))

MulSmall(a, k) == MulAddSmall(a, k, 0)

\* quotient and remainder of a by k, for k a divisor of Base: the remainder
\* a limb hands down is that of the limb alone
DivSmall(a, k) ==
    [q |-> Norm(Tup([i \in 1..Len(a) |-> (a[i] + (Limb(a, i + 1) % k) * Base) \div k])),
     r |-> Limb(a, 1) % k]

Sign(x) == IF x < 0 THEN -1 ELSE IF x > 0 THEN 1 ELSE 0

\* -1, 0, 1 as a < b, a = b, a > b: the most significant limb that differs
\* decides
Cmp(a, b) ==
    IF Len(a) # Len(b) THEN Sign(Len(a) - Len(b))
    ELSE IF a = b THEN 0
    ELSE LET i == CHOOSE n \in 1..Len(a) :
                      a[n] # b[n] /\ \A k \in (n + 1)..Len(a) : a[k] = b[k]
         IN  Sign(a[i] - b[i])

Max(x, y) == IF x > y THEN x ELSE y

Add(a, b) == Carry(Tup([i \in 1..Max(Len(a), Len(b)) |-> Limb(a, i) + Limb(b, i)]))

ZeroLimbs(n) == Tup([i \in 1..n |-> 0])

\* a * Base^n
ShiftLimbs(a, n) == IF a = << >> THEN << >> ELSE ZeroLimbs(n) \o a

\* the sum of a[j] * b[k + 1 - j] over the limbs of a: the size of the bag
\* holding a[j] * b[k + 1 - j] copies of each j
ColSum(a, b, k) ==
    LET js == { j \in 1..Len(a) : a[j] * Limb(b, k + 1 - j) > 0 }
    IN  BagCardinality([j \in js |-> a[j] * Limb(b, k + 1 - j)])

\* a * b by columns, for Len(a) <= 21 (so that a column stays below 2^31)
MulCols(a, b) ==
    IF a = << >> \/ b = << >> THEN << >>
    ELSE Carry(Tup([k \in 1..(Len(a) + Len(b) - 1) |-> ColSum(a, b, k)]))

Mul(a, b) == IF Len(a) <= Len(b) THEN MulCols(a, b) ELSE MulCols(b, a)

IsOdd(a) == a # << >> /\ a[1] % 2 = 1

Pow10Small(j) == IF j = 0 THEN 1 ELSE IF j = 1 THEN 10 ELSE IF j = 2 THEN 100 ELSE 1000

\* a * 10^n
MulPow10(a, n) == ShiftLimbs(MulSmall(a, Pow10Small(n % 4)), n \div 4)

RECURSIVE NatPow(_, _)
\* a^n by squaring
NatPow(a, n) ==
    IF n = 0 THEN One
    ELSE IF n = 1 THEN a
    ELSE LET h == NatPow(a, n \div 2)
             hh == Mul(h, h)
         IN  IF n % 2 = 0 THEN hh ELSE Mul(hh, a)

\* the powers (2^16)^i and (5^8)^i for i < 32, at index i + 1
Pow2Hi == Tup([i \in 1..32 |-> NatPow(Carry(<< 2^16 >>), i - 1)])
Pow5Hi == Tup([i \in 1..32 |-> NatPow(Carry(<< 5^8 >>), i - 1)])

\* a * 2^n for n < 512 and a * 5^n for n < 256
MulPow2(a, n) == IF n = 0 THEN a ELSE Mul(MulSmall(a, 2^(n % 16)), Pow2Hi[n \div 16 + 1])
MulPow5(a, n) == IF n = 0 THEN a ELSE Mul(MulSmall(a, 5^(n % 8)), Pow5Hi[n \div 8 + 1])

\* the natural number written with the decimal digits ds, first digit first:
\* limb i holds the i-th group of four digits from the right
NatOfDigits(ds) ==
    LET n == Len(ds)
        D(j) == IF j >= 1 THEN ds[j] ELSE 0
    IN  Norm(Tup([i \in 1..((n + 3) \div 4) |->
                    D(n - 4*i + 4) + 10 * D(n - 4*i + 3) + 100 * D(n - 4*i + 2)
                      + 1000 * D(n - 4*i + 1)]))

SmallDigits(x) == IF x < 10 THEN 1 ELSE IF x < 100 THEN 2 ELSE IF x < 1000 THEN 3 ELSE 4

\* number of decimal digits of a (0 for zero)
NumDigits(a) == IF a = << >> THEN 0 ELSE 4 * (Len(a) - 1) + SmallDigits(a[Len(a)])

\* a div 10^n and a mod 10^n
DivPow10(a, n) ==
    LET k == n \div 4
        lo == IF k >= Len(a) THEN a ELSE SubSeq(a, 1, k)
        hi == IF k >= Len(a) THEN << >> ELSE SubSeq(a, k + 1, Len(a))
        d == IF n % 4 = 0 THEN [q |-> hi, r |-> 0] ELSE DivSmall(hi, Pow10Small(n % 4))
    IN  [q |-> d.q, r |-> Norm(lo \o (IF d.r = 0 THEN << >> ELSE ZeroLimbs(k - Len(lo)) \o << d.r >>))]

\* ------------------------------------------------------------ Python values

\* A value of the namespace: t is its type, s its sign bit (1: negative), and
\*   int      the integer m
\*   float    the binary64 number m * 2^e, with 2^52 <= m < 2^53 (or m = 0);
\*            e = InfExp marks an infinity
\*   decimal  the decimal.Decimal with coefficient m and exponent e
\*   class    the class decimal.Decimal
\*   unbound  no binding;  NameError, TypeError: a raised exception
Val(t, s, m, e) == [t |-> t, s |-> s, m |-> m, e |-> e]

Unbound == Val("unbound", 0, Zero, 0)
DecimalClass == Val("class", 0, Zero, 0)
NameError == Val("NameError", 0, Zero, 0)
TypeError == Val("TypeError", 0, Zero, 0)
IntV(s, m) == Val("int", IF m = Zero THEN 0 ELSE s, m, 0)
IsError(v) == v.t \in {"NameError", "TypeError"}

MantBits == 53
DecimalPrec == 28
InfExp == 1024

Two52 == NatPow(<< 2 >>, MantBits - 1)
Two53 == NatPow(<< 2 >>, MantBits)
Five16 == NatPow(<< 5 >>, 16)
Sticky(b) == IF b THEN 1 ELSE 0

\* a lower bound of the number of bits of a number of n decimal digits, at
\* most 5 below it (3321/1000 < log2(10))
BitsAtLeast(n) == ((n - 1) * 3321) \div 1000 + 1

\* the quotient q with the bits shifted out of it: the first one (g) and
\* whether a later one is set (st), read off the remainder r, which compares
\* to half the divisor as h says
Shifted(q, r, h) ==
    [q |-> q, g |-> IF h >= 0 THEN 1 ELSE 0, st |-> Sticky(h > 0 \/ (h < 0 /\ r # Zero))]

\* d = [q, r], the quotient and remainder of a division by 10^n, as a shift by
\* n bits of the dividend's 5^n-th part
ShiftedBy(d, n) == Shifted(d.q, d.r, Cmp(d.r, MulPow10(<< 5 >>, n - 1)))

\* a shifted right by n > 0 bits: the quotient a * 5^n div 10^n, the first bit
\* g shifted out and whether a later one is set (st)
ShiftRight(a, n) == ShiftedBy(DivPow10(MulPow5(a, n), n), n)

\* every inexact result rounded up (away from zero)
RoundUp(a, g, st) ==
    IF g = 1 \/ st = 1 THEN Add(a, One) ELSE a

\* IEEE 754 roundTiesToEven of a plus the discarded fraction to an integer:
\* g is the first discarded bit, st tells whether any later one is set.
RoundNearestEven(a, g, st) ==
    IF g = 1 /\ (st = 1 \/ IsOdd(a)) THEN Add(a, One) ELSE a

\* the number of bits of a > 0: BitsAtLeast and the powers of two above it
\* that a reaches
BitLen(a) ==
    LET lo == BitsAtLeast(NumDigits(a))
    IN  lo + Cardinality({ k \in 0..4 : Cmp(a, MulPow2(One, lo + k)) >= 0 })

\* a shifted by s bits to the right (to the left for s < 0), with what was
\* shifted out, and the fraction st it had before, in g and st
NormalizeBy(d, e, st, s) ==
    IF s > 0 THEN [m |-> d.q, e |-> e + s, g |-> d.g, st |-> Sticky(st + d.st > 0)]
    ELSE [m |-> d.q, e |-> e + s, g |-> 0, st |-> st]

\* (a + fraction) * 2^e brought to MantBits bits, for a > 0; st tells whether
\* the fraction is nonzero
NormalizeTo(a, e, st, s) ==
    NormalizeBy(IF s > 0 THEN ShiftRight(a, s) ELSE [q |-> MulPow2(a, -s)], e, st, s)

Normalize(a, e, st) == NormalizeTo(a, e, st, BitLen(a) - MantBits)

\* the float (-1)^s * r * 2^x for a rounded significand r <= 2^53: 2^53 is
\* carried into the exponent, an exponent out of range gives an infinity
Packed(s, r, x) ==
    LET c == IF r = Two53 THEN 1 ELSE 0
    IN  IF x + c + MantBits > InfExp THEN Val("float", s, Zero, InfExp)
        ELSE Val("float", s, IF c = 1 THEN Two52 ELSE r, x + c)

\* n = [m, e, g, st], a normalised significand with what was shifted out of
\* it, rounded to a float
Rounded(s, n) == Packed(s, RoundNearestEven(n.m, n.g, n.st), n.e)

\* the binary64 nearest to (-1)^s * (a + fraction) * 2^e, where the fraction is
\* nonzero iff st = 1 and a >= 2^53 whenever st = 1
FloatOf(s, a, e, st) ==
    IF a = Zero THEN Val("float", s, Zero, 0) ELSE Rounded(s, Normalize(a, e, st))

\* a number of bits sh with d * 2^sh >= p
ScaleUp(d, p) ==
    LET n == NumDigits(p) - NumDigits(d) + 1
    IN  IF n <= 0 THEN 0 ELSE (n * 3322) \div 1000 + 1

\* the binary64 nearest to (-1)^s * (q + fraction) * 2^e for d = [q, r], the
\* fraction being nonzero iff r is
FloatOfQuotient(s, d, e) == FloatOf(s, d.q, e, Sticky(d.r # Zero))

\* the binary64 nearest to (-1)^s * d * 10^x: what the float literal parser
\* and float(Decimal) compute (correctly rounded decimal to binary conversion)
DecToFloat(s, d, x) ==
    LET sh == IF x >= 0 THEN 0 ELSE ScaleUp(d, MulPow10(Two53, -x))
    IN  FloatOfQuotient(s, IF x >= 0 THEN [q |-> MulPow10(d, x), r |-> Zero]
                           ELSE DivPow10(MulPow2(d, sh), -x), -sh)

\* float(i) for an int i
IntToFloat(i) == FloatOf(i.s, i.m, 0, 0)

\* float(d) for a Decimal d
FloatOfDecimal(d) == DecToFloat(d.s, d.m, d.e)

Xor(a, b) == (a + b) % 2

\* x * y for two floats
FloatMul(x, y) ==
    IF x.e = InfExp \/ y.e = InfExp THEN Val("float", Xor(x.s, y.s), Zero, InfExp)
    ELSE FloatOf(Xor(x.s, y.s), Mul(x.m, y.m), x.e + y.e, 0)

RECURSIVE Reduce(_, _)
RECURSIVE Reduce16(_, _, _)
\* m * 2^e with e < 0 in lowest terms (float.as_integer_ratio): trailing zero
\* bits are dropped sixteen, four or one at a time
Reduce(m, e) ==
    IF e >= 0 \/ m = Zero \/ IsOdd(m) THEN [m |-> m, e |-> e]
    ELSE IF e > -4 \/ m[1] % 16 # 0 THEN Reduce(DivSmall(m, 2).q, e + 1)
    ELSE IF e > -16 THEN Reduce(DivSmall(m, 16).q, e + 4)
    ELSE Reduce16(DivPow10(Mul(m, Five16), 16), m, e)

\* d = [q, r], the quotient and remainder of m by 2^16
Reduce16(d, m, e) ==
    IF d.r = Zero THEN Reduce(d.q, e + 16) ELSE Reduce(DivSmall(m, 16).q, e + 4)

\* the Decimal (-1)^s * r.m * 2^(r.e) for r.e <= 0: r.m * 5^(-r.e) * 10^(r.e)
DecimalOfRatio(s, r) == Val("decimal", s, MulPow5(r.m, -r.e), r.e)

\* Decimal(f) for a float f: the exact value of f
DecimalFromFloat(f) ==
    IF f.e >= 0 THEN Val("decimal", f.s, MulPow2(f.m, f.e), 0)
    ELSE DecimalOfRatio(f.s, Reduce(f.m, f.e))

\* the coefficient c * 10^e rounded to DecimalPrec digits, ROUND_HALF_EVEN
\* (the default context of the decimal module)
DecRound(s, c, e) ==
    LET n == NumDigits(c)
    IN  IF n <= DecimalPrec THEN Val("decimal", s, c, e)
        ELSE LET drop == n - DecimalPrec
                 d == DivPow10(c, drop)
                 half == Cmp(MulSmall(d.r, 2), MulPow10(One, drop))
                 up == half > 0 \/ (half = 0 /\ IsOdd(d.q))
                 q == IF up THEN Add(d.q, One) ELSE d.q
             IN  IF NumDigits(q) > DecimalPrec
                 THEN Val("decimal", s, DivSmall(q, 10).q, e + drop + 1)
                 ELSE Val("decimal", s, q, e + drop)

\* x * y for two Decimals
DecMul(x, y) == DecRound(Xor(x.s, y.s), Mul(x.m, y.m), x.e + y.e)

\* Decimal(i) for an int i
DecimalFromInt(i) == Val("decimal", i.s, i.m, 0)

\* Num(x), i.e. decimal.Decimal(x)
Num(x) ==
    IF x.t = "int" THEN DecimalFromInt(x)
    ELSE IF x.t = "float" THEN DecimalFromFloat(x)
    ELSE IF x.t = "decimal" THEN x
    ELSE TypeError

\* the operand v of a float or of a Decimal product: an int is converted
AsFloat(v) == IF v.t = "int" THEN IntToFloat(v) ELSE v
AsDecimal(v) == IF v.t = "int" THEN DecimalFromInt(v) ELSE v

\* x * y
PyMul(x, y) ==
    IF IsError(x) THEN x
    ELSE IF IsError(y) THEN y
    ELSE IF x.t = "int" /\ y.t = "int" THEN IntV(Xor(x.s, y.s), Mul(x.m, y.m))
    ELSE IF {x.t, y.t} \subseteq {"float", "int"} THEN FloatMul(AsFloat(x), AsFloat(y))
    ELSE IF {x.t, y.t} \subseteq {"decimal", "int"} THEN DecMul(AsDecimal(x), AsDecimal(y))
    ELSE TypeError

\* x ** y for ints with 0 <= y < Base
PyPow(x, y) ==
    IF IsError(x) THEN x
    ELSE IF IsError(y) THEN y
    ELSE IF x.t = "int" /\ y.t = "int" /\ y.s = 0 /\ Len(y.m) <= 1
    THEN IntV(IF Limb(y.m, 1) % 2 = 1 THEN x.s ELSE 0, NatPow(x.m, Limb(y.m, 1)))
    ELSE TypeError

\* ------------------------------------------------------------ the module body

\* Expressions of the module body.  A literal keeps the digits written in the
\* source: IntLit its digits, FloatLit the digits before and after the point.
IntLit(ds) == [op |-> "int", ds |-> ds]
FloatLit(ip, fp) == [op |-> "float", ip |-> ip, fp |-> fp]
Name(n) == [op |-> "name", id |-> n]
Neg(a) == [op |-> "neg", a |-> a]
MulE(l, r) == [op |-> "mul", l |-> l, r |-> r]
PowE(l, r) == [op |-> "pow", l |-> l, r |-> r]
Call(f, a) == [op |-> "call", f |-> f, a |-> a]
ImportDecimal == [op |-> "import"]

Stmt(line, target, expr) == [line |-> line, target |-> target, expr |-> expr]

\* the digits of the literal of lines 8 and 16
LDigits ==
    << 2,8,9,4,8,0,2,2,3,0,9,3,2,9,0,4,8,8,5,5,8,9,2,7,4,6,2,5,2,1,7,1,9,7,6,9,6,3,3,
       6,3,0,5,6,4,8,1,9,4,1,5,6,0,7,1,5,9,5,4,6,7,6,7,6,4,3,4,9,9,6,7,6,3,0,3,3,7 >>

LLit == FloatLit(LDigits, << 0 >>)
Lit001 == FloatLit(<< 0 >>, << 0, 1 >>)
Lit099 == FloatLit(<< 0 >>, << 9, 9 >>)

\* constants.py, statement by statement
Source ==
    << Stmt(1, "Num", ImportDecimal),
       Stmt(3, "N_TERM", IntLit(<< 2 >>)),
       Stmt(4, "CONTROLLER_TYPE_ANALOGUE", Neg(IntLit(<< 1 >>))),
       Stmt(5, "CONTROLLER_TYPE_DISCRETE", IntLit(<< 0 >>)),
       Stmt(6, "CONTROLLER_TYPE_TAKAHASHI", IntLit(<< 1 >>)),
       Stmt(8, "L", LLit),
       Stmt(9, "N_TERM", IntLit(<< 2 >>)),
       Stmt(10, "REWARD", IntLit(<< 1 >>)),
       Stmt(11, "BASE_L", MulE(Name("L"), Lit001)),
       Stmt(12, "F_MIN", Lit001),
       Stmt(13, "F_MAX", Lit099),
       Stmt(14, "EPSILON", IntLit(<< 1 >>)),
       Stmt(16, "L_HP", Call(Name("Num"), LLit)),
       Stmt(17, "REWARD_HP", Call(Name("Num"), IntLit(<< 1 >>))),
       Stmt(18, "BASE_L_HP", MulE(Name("L_HP"), Call(Name("Num"), Lit001))),
       Stmt(19, "F_MIN_HP", Call(Name("Num"), Lit001)),
       Stmt(20, "F_MAX_HP", Call(Name("Num"), Lit099)),
       Stmt(21, "EPSILON_HP", Call(Name("Num"), IntLit(<< 1 >>))),
       Stmt(22, "ERC20DRK", MulE(FloatLit(<< 2 >>, << 1 >>),
                                 PowE(IntLit(<< 1, 0 >>), IntLit(<< 9 >>)))) >>

\* F_MAX_HP transcribed as Num(0.98): the two forms of F_MAX drift apart
ProgDrift ==
    [Source EXCEPT ![17] = Stmt(20, "F_MAX_HP", Call(Name("Num"), FloatLit(<< 0 >>, << 9, 8 >>)))]

\* L rebound after BASE_L was derived from it
ProgRebind ==
    SubSeq(Source, 1, 9) \o << Stmt(11, "L", FloatLit(<< 1 >>, << 0 >>)) >>
      \o SubSeq(Source, 10, Len(Source))

\* EPSILON_HP = 1, the Num(...) forgotten
ProgNoNum == [Source EXCEPT ![18] = Stmt(21, "EPSILON_HP", IntLit(<< 1 >>))]

\* the second assignment of N_TERM writes 3
ProgNTerm == [Source EXCEPT ![7] = Stmt(9, "N_TERM", IntLit(<< 3 >>))]

\* the values of F_MIN and F_MAX exchanged
ProgSwap ==
    [Source EXCEPT ![10] = Stmt(12, "F_MIN", Lit099), ![11] = Stmt(13, "F_MAX", Lit001)]

\* CONTROLLER_TYPE_ANALOGUE = 1, the minus sign dropped
ProgTag == [Source EXCEPT ![3] = Stmt(4, "CONTROLLER_TYPE_ANALOGUE", IntLit(<< 1 >>))]

\* BASE_L_HP derived before L_HP is assigned
ProgOrder ==
    [Source EXCEPT ![13] = Stmt(16, "BASE_L_HP", MulE(Name("L_HP"), Call(Name("Num"), Lit001))),
                   ![15] = Stmt(18, "L_HP", Call(Name("Num"), LLit))]

Prog == Source

\* the names the module binds
Bound == { Prog[i].target : i \in 1..Len(Prog) }

\* the plain constants and the name of the high-precision form of each
Plain ==
    { "N_TERM", "CONTROLLER_TYPE_ANALOGUE", "CONTROLLER_TYPE_DISCRETE",
      "CONTROLLER_TYPE_TAKAHASHI", "L", "REWARD", "BASE_L", "F_MIN", "F_MAX",
      "EPSILON", "ERC20DRK" }

HP(x) ==
    CASE x = "N_TERM" -> "N_TERM_HP"
      [] x = "CONTROLLER_TYPE_ANALOGUE" -> "CONTROLLER_TYPE_ANALOGUE_HP"
      [] x = "CONTROLLER_TYPE_DISCRETE" -> "CONTROLLER_TYPE_DISCRETE_HP"
      [] x = "CONTROLLER_TYPE_TAKAHASHI" -> "CONTROLLER_TYPE_TAKAHASHI_HP"
      [] x = "L" -> "L_HP"
      [] x = "REWARD" -> "REWARD_HP"
      [] x = "BASE_L" -> "BASE_L_HP"
      [] x = "F_MIN" -> "F_MIN_HP"
      [] x = "F_MAX" -> "F_MAX_HP"
      [] x = "EPSILON" -> "EPSILON_HP"
      [] x = "ERC20DRK" -> "ERC20DRK_HP"

\* every name a reader may ask for
Names == Bound \cup Plain \cup { HP(x) : x \in Plain }

\* the float a float literal denotes
ParseFloat(ip, fp) == DecToFloat(0, NatOfDigits(ip \o fp), -Len(fp))

PyNeg(v) ==
    IF IsError(v) THEN v
    ELSE IF v.t \in {"int", "float", "decimal"}
    THEN Val(v.t, IF v.m = Zero /\ v.t = "int" THEN 0 ELSE 1 - v.s, v.m, v.e)
    ELSE TypeError

PyCall(f, a) ==
    IF IsError(f) THEN f
    ELSE IF IsError(a) THEN a
    ELSE IF f = DecimalClass THEN Num(a)
    ELSE TypeError

RECURSIVE Eval(_, _)
\* the value of expression x in namespace ns, or the exception it raises
Eval(x, ns) ==
    CASE x.op = "int" -> IntV(0, NatOfDigits(x.ds))
      [] x.op = "float" -> ParseFloat(x.ip, x.fp)
      [] x.op = "name" -> IF ns[x.id] = Unbound THEN NameError ELSE ns[x.id]
      [] x.op = "neg" -> PyNeg(Eval(x.a, ns))
      [] x.op = "mul" -> PyMul(Eval(x.l, ns), Eval(x.r, ns))
      [] x.op = "pow" -> PyPow(Eval(x.l, ns), Eval(x.r, ns))
      [] x.op = "call" -> PyCall(Eval(x.f, ns), Eval(x.a, ns))
      [] x.op = "import" -> DecimalClass

RECURSIVE Reads(_)
\* the names expression x reads
Reads(x) ==
    CASE x.op = "name" -> { x.id }
      [] x.op = "neg" -> Reads(x.a)
      [] x.op \in {"mul", "pow"} -> Reads(x.l) \cup Reads(x.r)
      [] x.op = "call" -> Reads(x.f) \cup Reads(x.a)
      [] OTHER -> {}

\* ------------------------------------------------------------ the state machine

NumReaders == 2
Readers == 1..NumReaders

VARIABLES
    pc,       \* index in Prog of the next statement to execute
    env,      \* the module namespace: name -> value
    boundAt,  \* history: name -> line of the statement that last bound it (0: none)
    err,      \* "none", or the exception that ended the load
    obs       \* reader -> the last lookup it made: [name, val], or NoObs

vars == << pc, env, boundAt, err, obs >>

NoObs == [name |-> "", val |-> Unbound]

\* a module taken for loaded while its body is still running
LoadedEarly == pc > 7 /\ err = "none"

\* the load has run past the last statement
Loaded == pc > Len(Prog) /\ err = "none"

Init ==
    /\ pc = 1
    /\ env = [n \in Names |-> Unbound]
    /\ boundAt = [n \in Names |-> 0]
    /\ err = "none"
    /\ obs = [r \in Readers |-> NoObs]

\* the load is still running: a statement is left and nothing was raised
CanExec == pc <= Len(Prog) /\ err = "none"

\* a lookup of name n succeeds: the module is loaded and binds n
CanRead(n) == Loaded /\ env[n] # Unbound

\* the outcome of statement st, whose right-hand side has the value v
Bind(st, v) ==
    IF IsError(v)
    THEN /\ err' = v.t
         /\ UNCHANGED << pc, env, boundAt >>
    ELSE /\ env' = [env EXCEPT ![st.target] = v]
         /\ boundAt' = [boundAt EXCEPT ![st.target] = st.line]
         /\ pc' = pc + 1
         /\ err' = err

\* execute the statement at pc: evaluate its right-hand side in the current
\* namespace and bind the target, or stop the load with the exception raised
Exec ==
    /\ CanExec
    /\ Bind(Prog[pc], Eval(Prog[pc].expr, env))
    /\ UNCHANGED obs

\* reader r looks name n up in the loaded module
Read(r, n) ==
    /\ CanRead(n)
    /\ obs' = [obs EXCEPT ![r] = [name |-> n, val |-> env[n]]]
    /\ UNCHANGED << pc, env, boundAt, err >>

Next ==
    \/ Exec
    \/ \E r \in Readers, n \in Names : Read(r, n)

Spec == Init /\ [][Next]_vars

\* ------------------------------------------------------------ comparisons

Min(x, y) == IF x < y THEN x ELSE y
Exp2(v) == IF v.t = "float" THEN v.e ELSE 0
Exp10(v) == IF v.t = "decimal" THEN v.e ELSE 0
IsNumber(v) == v.t \in {"int", "float", "decimal"} /\ v.e # InfExp

\* |v| * 2^(-a) * 10^(-b) as a natural number, for a <= Exp2(v), b <= Exp10(v)
Scaled(v, a, b) == MulPow10(MulPow2(v.m, Exp2(v) - a), Exp10(v) - b)

\* -1, 0, 1 as x < y, x = y, x > y for numbers x, y compared by exact value
\* (Python's comparison of int, float and Decimal)
ValCmp(x, y) ==
    LET a == Min(Exp2(x), Exp2(y))
        b == Min(Exp10(x), Exp10(y))
        c == Cmp(Scaled(x, a, b), Scaled(y, a, b))
        sx == IF x.m = Zero THEN 0 ELSE x.s
        sy == IF y.m = Zero THEN 0 ELSE y.s
    IN  IF sx # sy THEN (IF sx = 1 THEN -1 ELSE 1)
        ELSE IF sx = 1 THEN -c ELSE c

NumEq(x, y) == IsNumber(x) /\ IsNumber(y) /\ ValCmp(x, y) = 0
NumLt(x, y) == IsNumber(x) /\ IsNumber(y) /\ ValCmp(x, y) < 0

IntOf(ds) == IntV(0, NatOfDigits(ds))
\* the Decimal written with digits ds and n of them after the point
DecOf(ds, n) == Val("decimal", 0, NatOfDigits(ds), -n)

Paired == { "L", "REWARD", "BASE_L", "F_MIN", "F_MAX", "EPSILON" }
Unpaired == Plain \ Paired
Tags == { "CONTROLLER_TYPE_ANALOGUE", "CONTROLLER_TYPE_DISCRETE", "CONTROLLER_TYPE_TAKAHASHI" }

\* the statement that binds name n last, as an index of Prog (0: none)
LastStmt(n) ==
    LET S == { i \in 1..Len(Prog) : Prog[i].target = n }
    IN  IF S = {} THEN 0 ELSE CHOOSE i \in S : \A j \in S : j <= i

\* ------------------------------------------------------------ claims

\* C1: after load, for every X in {L, REWARD, BASE_L, F_MIN, F_MAX, EPSILON},
\* X_HP is a Decimal and float(X_HP) == X.  The two sides are equal exactly,
\* which is within any rounding tolerance.
C1_FloatOfHPEqualsPlain ==
    Loaded =>
        \A x \in Paired :
            /\ env[HP(x)].t = "decimal"
            /\ NumEq(FloatOfDecimal(env[HP(x)]), env[x])

\* the load is over and BASE_L_HP, the rounded product, converts to BASE_L
C1_Witness ==
    /\ Loaded
    /\ boundAt["BASE_L_HP"] = 18
    /\ NumDigits(env["BASE_L_HP"].m) = DecimalPrec
    /\ FloatOfDecimal(env["BASE_L_HP"]) = env["BASE_L"]

\* C2: after load the _HP constants hold the exact decimal values: L_HP the
\* written integer, F_MIN_HP 1/100, F_MAX_HP 99/100, REWARD_HP and EPSILON_HP 1,
\* BASE_L_HP one hundredth of the written integer.
C2_HPExactDecimal ==
    Loaded =>
        /\ NumEq(env["L_HP"], IntOf(LDigits))
        /\ NumEq(env["F_MIN_HP"], DecOf(<< 1 >>, 2))
        /\ NumEq(env["F_MAX_HP"], DecOf(<< 9, 9 >>, 2))
        /\ NumEq(env["REWARD_HP"], IntOf(<< 1 >>))
        /\ NumEq(env["EPSILON_HP"], IntOf(<< 1 >>))
        /\ NumEq(env["BASE_L_HP"], DecOf(LDigits, 2))

\* C3: after load BASE_L is L * 0.01 in float arithmetic and BASE_L_HP is
\* L_HP * Decimal(0.01) in decimal arithmetic, on the final values of L and
\* L_HP: each operand was bound before the result and nothing was rebound since.
C3_BaseDerived ==
    Loaded =>
        /\ env["BASE_L"] = FloatMul(env["L"], ParseFloat(<< 0 >>, << 0, 1 >>))
        /\ env["BASE_L_HP"] = DecMul(env["L_HP"], Num(ParseFloat(<< 0 >>, << 0, 1 >>)))
        /\ 0 < boundAt["L"] /\ boundAt["L"] < boundAt["BASE_L"]
        /\ 0 < boundAt["L_HP"] /\ boundAt["L_HP"] < boundAt["BASE_L_HP"]

\* both baselines are bound, by lines 11 and 18
C3_Witness ==
    /\ Loaded
    /\ boundAt["BASE_L"] = 11 /\ env["BASE_L"].t = "float"
    /\ boundAt["BASE_L_HP"] = 18 /\ env["BASE_L_HP"].t = "decimal"

\* C4: after load ERC20DRK, the float product 2.1 * 10**9, is the float 2.1e9
\* and its exact value is the integer 2100000000.
C4_ERC20DRKExact ==
    Loaded =>
        /\ env["ERC20DRK"] = DecToFloat(0, NatOfDigits(<< 2, 1 >>), 8)
        /\ NumEq(env["ERC20DRK"], IntOf(<< 2, 1, 0, 0, 0, 0, 0, 0, 0, 0 >>))

\* ERC20DRK is bound by line 22 to a float, from an inexact operand 2.1
C4_Witness ==
    /\ Loaded
    /\ boundAt["ERC20DRK"] = 22
    /\ env["ERC20DRK"].t = "float"
    /\ ~NumEq(ParseFloat(<< 2 >>, << 1 >>), DecOf(<< 2, 1 >>, 1))

\* C5 as stated: after load every plain constant is a float and has a Decimal
\* X_HP form.
C5_AllPairedOriginal ==
    Loaded =>
        \A x \in Plain : env[x].t = "float" /\ env[HP(x)].t = "decimal"

\* C5 amended: after load exactly L, REWARD, BASE_L, F_MIN, F_MAX and EPSILON
\* have a Decimal X_HP form; N_TERM, the controller tags and ERC20DRK have
\* none; L, BASE_L, F_MIN, F_MAX and ERC20DRK are floats, the other plain
\* constants are ints.
C5_PairedForms ==
    Loaded =>
        /\ \A x \in Paired : env[HP(x)].t = "decimal"
        /\ \A x \in Unpaired : env[HP(x)] = Unbound
        /\ \A x \in Plain :
              env[x].t = IF x \in {"L", "BASE_L", "F_MIN", "F_MAX", "ERC20DRK"}
                         THEN "float" ELSE "int"

\* the load is over, with an int plain form beside its Decimal form
C5_Witness ==
    /\ Loaded
    /\ env["REWARD"].t = "int" /\ env["REWARD_HP"].t = "decimal"
    /\ env["N_TERM_HP"] = Unbound

\* C6: N_TERM is assigned by two statements, and once the second has run
\* N_TERM is 2 and its binding is the one made by the second (line 9).
C6_NTermLastWrite ==
    /\ Cardinality({ i \in 1..Len(Prog) : Prog[i].target = "N_TERM" }) = 2
    /\ pc > LastStmt("N_TERM") =>
          /\ env["N_TERM"] = IntOf(<< 2 >>)
          /\ boundAt["N_TERM"] = Prog[LastStmt("N_TERM")].line
          /\ boundAt["N_TERM"] = 9
    /\ boundAt["N_TERM"] = 3 => pc <= LastStmt("N_TERM")

\* the load is over and the binding of N_TERM is that of line 9
C6_Witness == Loaded /\ boundAt["N_TERM"] = 9 /\ env["N_TERM"] = IntOf(<< 2 >>)

\* C7: once the load has finished no step changes the namespace, the lookup of
\* every name the module binds is enabled (for any reader, whatever the others
\* do), and whatever a reader has observed is the value the name holds.
C7_ReadOnlyAfterLoad ==
    [][Loaded =>
         /\ env' = env /\ boundAt' = boundAt
         /\ \A n \in Bound : CanRead(n)
         /\ \A r \in Readers :
               obs'[r] # NoObs => obs'[r].val = env[obs'[r].name]]_vars

\* two readers have looked up the same name
C7_Witness ==
    /\ Loaded
    /\ obs[1] # NoObs /\ obs[2] # NoObs
    /\ obs[1].name = obs[2].name

\* C8: after load 0 < F_MIN < F_MAX < 1 and 0 < F_MIN_HP < F_MAX_HP < 1.
C8_FractionBounds ==
    Loaded =>
        /\ NumLt(IntOf(<< 0 >>), env["F_MIN"])
        /\ NumLt(env["F_MIN"], env["F_MAX"])
        /\ NumLt(env["F_MAX"], IntOf(<< 1 >>))
        /\ NumLt(IntOf(<< 0 >>), env["F_MIN_HP"])
        /\ NumLt(env["F_MIN_HP"], env["F_MAX_HP"])
        /\ NumLt(env["F_MAX_HP"], IntOf(<< 1 >>))

\* the four bounds are bound, as floats and Decimals
C8_Witness ==
    /\ Loaded
    /\ env["F_MIN"].t = "float" /\ env["F_MAX"].t = "float"
    /\ env["F_MIN_HP"].t = "decimal" /\ env["F_MAX_HP"].t = "decimal"

\* C9: after load the controller tags are the ints -1, 0 and 1, pairwise
\* distinct.
C9_TagsDistinct ==
    Loaded =>
        /\ env["CONTROLLER_TYPE_ANALOGUE"] = IntV(1, One)
        /\ env["CONTROLLER_TYPE_DISCRETE"] = IntV(0, Zero)
        /\ env["CONTROLLER_TYPE_TAKAHASHI"] = IntV(0, One)
        /\ \A a, b \in Tags : a # b => ~NumEq(env[a], env[b])

\* the three tags are bound to ints
C9_Witness == Loaded /\ \A a \in Tags : env[a].t = "int" /\ boundAt[a] > 0

\* what C10 asks of every state but the count of names: no exception, the
\* statement to run reads bound names only, can run and raises nothing
LoadProgress ==
    /\ err = "none"
    /\ pc <= Len(Prog) =>
          /\ \A n \in Reads(Prog[pc].expr) : env[n] # Unbound
          /\ CanExec
          /\ ~IsError(Eval(Prog[pc].expr, env))

BoundNames == { n \in Names : env[n] # Unbound }

\* C10 as stated: every statement reads only names bound before it, the load
\* raises nothing and ends with 17 distinct names bound.
C10_LoadCompletesOriginal ==
    /\ LoadProgress
    /\ Loaded => Cardinality(BoundNames) = 17

\* C10 amended: every statement reads only names bound before it, the load
\* raises nothing and ends with the 18 distinct names of the list bound (Num,
\* N_TERM, three tags, six plain constants, six _HP names, ERC20DRK).
C10_LoadCompletes ==
    /\ LoadProgress
    /\ Loaded =>
          /\ BoundNames = Bound
          /\ BoundNames = {"Num", "ERC20DRK"} \cup (Plain \ {"ERC20DRK"})
                             \cup { HP(x) : x \in Paired }
          /\ Cardinality(BoundNames) = 18

\* the load is over, the last derived name bound after its operand
C10_Witness ==
    /\ Loaded
    /\ boundAt["L_HP"] = 16 /\ boundAt["BASE_L_HP"] = 18 /\ boundAt["Num"] = 1

====
